---- MODULE Spec2Model ----
(***************************************************************************)
(* neo-python API server front door: the HTTP Basic credential checker     *)
(* with exponential backoff (neo/api/JSONRPC/auth.py), the bounded failure *)
(* history (LimitedSizeDict in neo/api/utils.py), the start-up / shutdown  *)
(* sequence of neo/bin/api_server.py with its Twisted reactor, the         *)
(* response decorators of neo/api/utils.py and the handshake message of    *)
(* neo/Network/Payloads/VersionPayload.py.                                 *)
(***************************************************************************)
EXTENDS Integers, Sequences, FiniteSets, TLC

(***************************************************************************)
(* Bounds of the model.                                                    *)
(***************************************************************************)
\* usernames that may ever be presented: the configured one plus the others
NumUsers == 102
\* failed Basic logins accepted from the network in one behaviour
MaxAttempts == 103
\* HTTP connections with a request in flight at the same time
NumSlots == 2
\* usernames other than the configured one in the single-principal specification
MaxOthers == 2
\* failed logins of the configured username in the eviction specification
MaxRepeats == 3
\* failed logins of the configured username in the concurrent specification
MaxConcRepeats == 2
\* failed logins in the node specification
MaxNodeAttempts == 2
\* executions of one LoopingCall
MaxTicks == 3
\* payload lengths tried: COMPRESS_THRESHOLD - LenSpread .. COMPRESS_THRESHOLD + LenSpread
LenSpread == 2
\* Accept-Encoding header lines in one request
MaxAcceptValues == 2
\* characters in a user agent
MaxAgentLen == 2

(***************************************************************************)
(* Program constants.                                                      *)
(***************************************************************************)
\* LimitedSizeDict(size_limit=100)
size_limit == 100
\* "if consecutive_errors < 100"
MAX_CONSECUTIVE_ERRORS == 100
\* self.backoff(consecutive_errors, 2)
BACKOFF_T == 2
\* neo/api/utils.py
COMPRESS_FASTEST == 1
BASE_STRING_SIZE == 49
MTU_TCP_PACKET_SIZE == 1500
COMPRESS_THRESHOLD == MTU_TCP_PACKET_SIZE + BASE_STRING_SIZE

Users == 1..NumUsers
Slots == 1..NumSlots
\* the username the checker was constructed with (self.username)
username == 1
\* the passwords a client may send; GoodPw is the wallet password
GoodPw == 1
BadPw == 2
\* neo.Wallets.utils.to_aes_key: a one-way key derivation
to_aes_key(p) == p + 10
\* self.password: the derived key of the wallet password
password == to_aes_key(GoodPw)
\* twisted.cred.checkers.ANONYMOUS
ANONYMOUS == 0
\* dict.get's None
None == -1

(***************************************************************************)
(* Unbounded Python integers: little-endian sequences of base-10000 limbs. *)
(***************************************************************************)
RECURSIVE BigMulC(_, _, _)
BigMulC(x, k, c) ==
    IF x = <<>> THEN (IF c = 0 THEN <<>> ELSE <<c>>)
    ELSE LET p == Head(x) * k + c
         IN  <<p % 10000>> \o BigMulC(Tail(x), k, p \div 10000)

\* x * k for one limb k
BigMul(x, k) == IF k = 0 THEN <<>> ELSE BigMulC(x, k, 0)

RECURSIVE BigAddC(_, _, _)
BigAddC(x, y, c) ==
    IF x = <<>> /\ y = <<>> THEN (IF c = 0 THEN <<>> ELSE <<c>>)
    ELSE LET a == IF x = <<>> THEN 0 ELSE Head(x)
             b == IF y = <<>> THEN 0 ELSE Head(y)
             s == a + b + c
         IN  <<s % 10000>> \o BigAddC(IF x = <<>> THEN <<>> ELSE Tail(x),
                                      IF y = <<>> THEN <<>> ELSE Tail(y),
                                      s \div 10000)

BigAdd(x, y) == BigAddC(x, y, 0)

\* x * y, limb by limb
RECURSIVE BigMulBig(_, _)
BigMulBig(x, y) ==
    IF y = <<>> THEN <<>>
    ELSE LET rest == BigMulBig(x, Tail(y))
         IN  BigAdd(BigMul(x, Head(y)),
                    IF rest = <<>> THEN <<>> ELSE <<0>> \o rest)

\* 2 ** e: one limb while it fits, else the product of the two half powers
RECURSIVE BigPow2(_)
BigPow2(e) ==
    IF e <= 13 THEN <<2^e>>
    ELSE LET half == e \div 2
         IN  BigMulBig(BigPow2(half), BigPow2(e - half))

BigZero == <<>>

\* x <= y for normalised limb sequences
BigLeq(x, y) ==
    \/ Len(x) < Len(y)
    \/ /\ Len(x) = Len(y)
       /\ \/ x = y
          \/ \E i \in 1..Len(x) :
                /\ x[i] < y[i]
                /\ \A j \in (i + 1)..Len(x) : x[j] = y[j]

\* the longest time.sleep takes: CPython keeps the timeout as signed 64-bit
\* nanoseconds, so at most (2^63 - 1) \div 10^9 = 9223372036 seconds
SLEEP_MAX == <<2036, 2337, 92>>

\* time.sleep(secs): blocks for secs seconds, or raises OverflowError
\* ("timestamp too large to convert to C _PyTime_t") without blocking
sleep(secs) ==
    IF BigLeq(secs, SLEEP_MAX)
    THEN [raised |-> FALSE, slept |-> secs]
    ELSE [raised |-> TRUE, slept |-> BigZero]

VARIABLES
    consecutive_errors_history, \* the class-level LimitedSizeDict, in order
    slots,                      \* the HTTP requests in flight, one per connection
    attempts,                   \* per username: get_consecutive_errors calls completed
    evicted,                    \* usernames popped from the history so far
    lastTouched,                \* the username of the latest history update
    nextFresh,                  \* the next username not presented before
    nfail,                      \* failed Basic logins accepted so far
    lastReport,                 \* n: the count each username's latest failed login
                                \* got (0: none); evicted: the usernames evicted
                                \* since their latest failed login
    main_pc,                    \* main()'s position in api_server.py
    args,                       \* the parsed command line
    loops,                      \* the two LoopingCalls
    started,                    \* collaborators started and listeners bound
    closed,                     \* shutdown calls made, in order
    http,                       \* the request in the response pipeline
    peer                        \* the handshake message being exchanged

vars == <<consecutive_errors_history, slots, attempts, evicted, lastTouched,
          nextFresh, nfail, lastReport, main_pc, args, loops, started, closed,
          http, peer>>

authVars == <<consecutive_errors_history, slots, attempts, evicted, lastTouched,
              nextFresh, nfail, lastReport>>
nodeVars == <<main_pc, args, loops, started, closed>>
ioVars == <<http, peer>>

(***************************************************************************)
(* LimitedSizeDict (an OrderedDict): a sequence of [key, value] in         *)
(* insertion order.                                                        *)
(***************************************************************************)
Keys(h) == {h[i].key : i \in 1..Len(h)}

\* dict.get(key): the value, or None
get(h, k) ==
    IF k \in Keys(h) THEN h[CHOOSE i \in 1..Len(h) : h[i].key = k].value ELSE None

\* variant: the size check compares with >= and pops one entry too many
RECURSIVE check_size_limit_ge(_)
check_size_limit_ge(h) ==
    IF Len(h) >= size_limit THEN check_size_limit_ge(Tail(h)) ELSE h

\* while len(self) > self.size_limit: self.popitem(last=False)
RECURSIVE check_size_limit(_)
check_size_limit(h) ==
    IF Len(h) > size_limit THEN check_size_limit(Tail(h)) ELSE h

\* OrderedDict.__setitem__: an existing key keeps its position, a new key is
\* appended
OrderedDict_setitem(h, k, v) ==
    IF k \in Keys(h)
    THEN [i \in 1..Len(h) |-> IF h[i].key = k THEN [key |-> k, value |-> v] ELSE h[i]]
    ELSE Append(h, [key |-> k, value |-> v])

\* variant: room is made before the insert whenever the dict is full, also
\* when the key is already present
setitem_precheck(h, k, v) ==
    OrderedDict_setitem(IF Len(h) >= size_limit THEN Tail(h) ELSE h, k, v)

\* LimitedSizeDict.__setitem__
setitem(h, k, v) == check_size_limit(OrderedDict_setitem(h, k, v))

(***************************************************************************)
(* BasicUserPassCredentialChecker                                          *)
(***************************************************************************)
\* Python truthiness of "if consecutive_errors:"
Truthy(v) == v # None /\ v # 0

\* variant: the cap test reads <= and lets the count pass the cap
get_consecutive_errors_le(h, user, consecutive_errors) ==
    IF Truthy(consecutive_errors)
    THEN IF consecutive_errors <= MAX_CONSECUTIVE_ERRORS
         THEN [n |-> consecutive_errors + 1,
               h |-> setitem(h, user, consecutive_errors + 1)]
         ELSE [n |-> consecutive_errors, h |-> h]
    ELSE [n |-> 1, h |-> setitem(h, user, 1)]

\* variant: the count of a tracked username is decremented
get_consecutive_errors_minus(h, user, consecutive_errors) ==
    IF Truthy(consecutive_errors)
    THEN IF consecutive_errors < MAX_CONSECUTIVE_ERRORS
         THEN [n |-> consecutive_errors - 1,
               h |-> setitem(h, user, consecutive_errors - 1)]
         ELSE [n |-> consecutive_errors, h |-> h]
    ELSE [n |-> 1, h |-> setitem(h, user, 1)]

\* get_consecutive_errors after its read of the history (lines 67-74):
\* the count returned and the history left
get_consecutive_errors(h, user, consecutive_errors) ==
    IF Truthy(consecutive_errors)
    THEN IF consecutive_errors < MAX_CONSECUTIVE_ERRORS
         THEN [n |-> consecutive_errors + 1,
               h |-> setitem(h, user, consecutive_errors + 1)]
         ELSE [n |-> consecutive_errors, h |-> h]
    ELSE [n |-> 1, h |-> setitem(h, user, 1)]

\* backoff(n, t): the seconds time.sleep is asked to block, t * 2 ** (n - 1)
backoff(n, t) == BigMul(BigPow2(n - 1), t)

\* IUsernamePassword.providedBy(credentials)
providedBy(cred) == cred.kind = "basic"

\* variant: the interface check is skipped
requestAvatarId_nocheck(cred) ==
    IF cred.user = username /\ to_aes_key(cred.pw) = password
    THEN "succeed"
    ELSE "fail"

\* requestAvatarId's decision: the interface check, then the comparison
requestAvatarId(cred) ==
    IF ~providedBy(cred) THEN "UnhandledCredentials"
    ELSE IF cred.user = username /\ to_aes_key(cred.pw) = password
         THEN "succeed"
         ELSE "fail"

\* variant: the ANONYMOUS test is inverted
requestAvatar_inverted(avatarId) ==
    IF avatarId = ANONYMOUS THEN "ExtendedJsonRpcApiAuth" ELSE "ExtendedJsonRpcApi"

\* HTTPAuthRealm.requestAvatar: the API resource handed to the avatar
requestAvatar(avatarId) ==
    IF avatarId # ANONYMOUS THEN "ExtendedJsonRpcApiAuth" ELSE "ExtendedJsonRpcApi"

\* guard_resource_with_http_auth: checkers = [credentialChecker,
\* AllowAnonymousAccess()]; the checker a request's credentials select
checkerFor(cred) ==
    IF cred.kind = "none" THEN "AllowAnonymousAccess" ELSE "BasicUserPassCredentialChecker"

(***************************************************************************)
(* Requests                                                                *)
(***************************************************************************)
IdleSlot ==
    [pc |-> "idle", kind |-> "none", user |-> 0, pw |-> 0,
     consecutive_errors |-> None, n |-> 0, nth |-> 0, clean |-> FALSE,
     slept |-> BigZero, result |-> "-", avatarId |-> None, api |-> "-"]

\* pcs at which the reactor thread is inside requestAvatarId for the slot
Active == {"update", "backoff"}

\* variant: every request is handled on a thread of its own
ReactorIdle_threaded == TRUE

\* the reactor is one thread: it runs one callback to its end before the next
ReactorIdle == \A s \in Slots : slots[s].pc \notin Active

\* reactor.run() is executing and the guarded RPC site is listening
Serving == main_pc = "run" /\ "rpc_auth" \in started

(***************************************************************************)
(* The HTTP side: requests arrive on a connection, then the reactor runs   *)
(* HTTPAuthSessionWrapper -> Portal.login -> the selected checker.         *)
(***************************************************************************)
\* the connection has no request in flight: none yet, or the last one answered
Free(s) == slots[s].pc \in {"idle", "done"}

\* failed logins of the configured username in flight or recorded
Repeats ==
    attempts[username] +
    Cardinality({s \in Slots : /\ slots[s].pc \in {"pending", "update"}
                               /\ slots[s].kind = "basic"
                               /\ slots[s].user = username
                               /\ requestAvatarId(slots[s]) = "fail"})

\* a request without an Authorization header
ArriveAnonymous(s) ==
    /\ Serving
    /\ Free(s)
    /\ slots' = [slots EXCEPT ![s] = [IdleSlot EXCEPT !.pc = "pending", !.kind = "none"]]
    /\ UNCHANGED <<consecutive_errors_history, attempts, evicted, lastTouched,
                   nextFresh, nfail, lastReport, nodeVars, ioVars>>

\* credentials that do not provide IUsernamePassword
ArriveOther(s) ==
    /\ Serving
    /\ Free(s)
    /\ slots' = [slots EXCEPT ![s] = [IdleSlot EXCEPT !.pc = "pending", !.kind = "other"]]
    /\ UNCHANGED <<consecutive_errors_history, attempts, evicted, lastTouched,
                   nextFresh, nfail, lastReport, nodeVars, ioVars>>

\* Authorization: Basic user:pw
ArriveBasic(s, user, pw, maxFail, maxRepeat, maxUser) ==
    LET cred == [IdleSlot EXCEPT !.pc = "pending", !.kind = "basic",
                                 !.user = user, !.pw = pw]
        fails == requestAvatarId(cred) = "fail"
    IN  /\ Serving
        /\ Free(s)
        /\ user = username \/ (user = nextFresh /\ nextFresh <= maxUser)
        /\ fails => nfail < maxFail
        /\ (fails /\ user = username) => Repeats < maxRepeat
        /\ slots' = [slots EXCEPT ![s] = cred]
        /\ nextFresh' = IF user = nextFresh THEN nextFresh + 1 ELSE nextFresh
        /\ nfail' = IF fails THEN nfail + 1 ELSE nfail
        /\ UNCHANGED <<consecutive_errors_history, attempts, evicted, lastTouched,
                       lastReport, nodeVars, ioVars>>

\* no credentials: AllowAnonymousAccess yields ANONYMOUS, the realm builds the
\* avatar; BasicUserPassCredentialChecker is not called
LoginAnonymous(s) ==
    /\ Serving /\ ReactorIdle
    /\ slots[s].pc = "pending"
    /\ checkerFor(slots[s]) = "AllowAnonymousAccess"
    /\ slots' = [slots EXCEPT ![s].pc = "done", ![s].result = "avatar",
                              ![s].avatarId = ANONYMOUS,
                              ![s].api = requestAvatar(ANONYMOUS)]
    /\ UNCHANGED <<consecutive_errors_history, attempts, evicted, lastTouched,
                   nextFresh, nfail, lastReport, nodeVars, ioVars>>

\* requestAvatarId lines 77-81: raise error.UnhandledCredentials()
LoginUnhandled(s) ==
    /\ Serving /\ ReactorIdle
    /\ slots[s].pc = "pending"
    /\ checkerFor(slots[s]) = "BasicUserPassCredentialChecker"
    /\ requestAvatarId(slots[s]) = "UnhandledCredentials"
    /\ slots' = [slots EXCEPT ![s].pc = "done", ![s].result = "UnhandledCredentials"]
    /\ UNCHANGED <<consecutive_errors_history, attempts, evicted, lastTouched,
                   nextFresh, nfail, lastReport, nodeVars, ioVars>>

\* variant: a successful login deletes the username's failure record
LoginSucceed_reset(s) ==
    /\ Serving /\ ReactorIdle
    /\ slots[s].pc = "pending"
    /\ checkerFor(slots[s]) = "BasicUserPassCredentialChecker"
    /\ requestAvatarId(slots[s]) = "succeed"
    /\ slots' = [slots EXCEPT ![s].pc = "done", ![s].result = "avatar",
                              ![s].avatarId = slots[s].user,
                              ![s].api = requestAvatar(slots[s].user)]
    /\ consecutive_errors_history' =
          SelectSeq(consecutive_errors_history, LAMBDA e : e.key # slots[s].user)
    /\ UNCHANGED <<attempts, evicted, lastTouched, nextFresh, nfail, lastReport, nodeVars, ioVars>>

\* requestAvatarId lines 83-85: return succeed(credentials.username); the realm
\* then builds the avatar
LoginSucceed(s) ==
    /\ Serving /\ ReactorIdle
    /\ slots[s].pc = "pending"
    /\ checkerFor(slots[s]) = "BasicUserPassCredentialChecker"
    /\ requestAvatarId(slots[s]) = "succeed"
    /\ slots' = [slots EXCEPT ![s].pc = "done", ![s].result = "avatar",
                              ![s].avatarId = slots[s].user,
                              ![s].api = requestAvatar(slots[s].user)]
    /\ UNCHANGED <<consecutive_errors_history, attempts, evicted, lastTouched,
                   nextFresh, nfail, lastReport, nodeVars, ioVars>>

\* requestAvatarId lines 86-87 and get_consecutive_errors line 66: the else
\* branch is entered and consecutive_errors = history.get(username) is read
LoginFail(s) ==
    /\ Serving /\ ReactorIdle
    /\ slots[s].pc = "pending"
    /\ checkerFor(slots[s]) = "BasicUserPassCredentialChecker"
    /\ requestAvatarId(slots[s]) = "fail"
    /\ slots' = [slots EXCEPT ![s].pc = "update",
                   ![s].consecutive_errors = get(consecutive_errors_history, slots[s].user)]
    /\ UNCHANGED <<consecutive_errors_history, attempts, evicted, lastTouched,
                   nextFresh, nfail, lastReport, nodeVars, ioVars>>

\* get_consecutive_errors lines 67-74, then time.sleep is entered
UpdateErrors(s) ==
    LET u == slots[s].user
        r == get_consecutive_errors(consecutive_errors_history, u,
                                    slots[s].consecutive_errors)
    IN  /\ slots[s].pc = "update"
        /\ consecutive_errors_history' = r.h
        /\ attempts' = [attempts EXCEPT ![u] = @ + 1]
        /\ evicted' = evicted \cup (Keys(consecutive_errors_history) \ Keys(r.h))
        /\ lastTouched' = u
        /\ slots' = [slots EXCEPT ![s].pc = "backoff", ![s].n = r.n,
                                  ![s].nth = attempts[u] + 1,
                                  ![s].clean = u \notin evicted]
        /\ lastReport' =
              [n |-> [lastReport.n EXCEPT ![u] = r.n],
               evicted |-> (lastReport.evicted
                              \cup (Keys(consecutive_errors_history) \ Keys(r.h)))
                           \ {u}]
        /\ UNCHANGED <<nextFresh, nfail, nodeVars, ioVars>>

\* self.backoff(consecutive_errors, 2): when time.sleep returns, line 90 is
\* return fail(UnauthorizedLogin(...)); when it raises, the OverflowError
\* leaves requestAvatarId and the login ends as an unexpected failure
Backoff(s) ==
    /\ slots[s].pc = "backoff"
    /\ LET z == sleep(backoff(slots[s].n, BACKOFF_T))
       IN  slots' = [slots EXCEPT
                       ![s].pc = "done",
                       ![s].result = IF z.raised THEN "OverflowError"
                                                 ELSE "Unauthorized",
                       ![s].slept = z.slept]
    /\ UNCHANGED <<consecutive_errors_history, attempts, evicted, lastTouched,
                   nextFresh, nfail, lastReport, nodeVars, ioVars>>

(***************************************************************************)
(* The response pipeline (neo/api/utils.py): a route handler wrapped by     *)
(* @cors_header and @json_response.  Text is a sequence of characters.      *)
(***************************************************************************)
GZIP == <<"g", "z", "i", "p">>

\* Accept-Encoding header lines a client sends
EncodingValues ==
    { GZIP,
      <<"i", "d", "e", "n", "t", "i", "t", "y">>,
      <<"d", "e", "f", "l", "a", "t", "e", ",", " ", "g", "z", "i", "p">>,
      <<"g", "z", "i", "p", ";", "q", "=", "0">>,
      <<"b", "r">> }

\* request.requestHeaders.getRawHeaders('Accept-Encoding'): the list of the
\* header's lines, or None (here the empty sequence) when the header is absent
AcceptHeaders ==
    {<<>>} \cup UNION {[1..n -> EncodingValues] : n \in 1..MaxAcceptValues}

\* t in s, for str
Contains(t, s) ==
    \E i \in 0..(Len(s) - Len(t)) : SubSeq(s, i + 1, i + Len(t)) = t

\* what handlers return: a dict with one string member of size characters, a
\* list of size zeros, or a str of size characters (serialized beforehand)
Results ==
    LET lo == COMPRESS_THRESHOLD - LenSpread
        hi == COMPRESS_THRESHOLD + LenSpread
    IN  {[type |-> "dict", size |-> m, of |-> <<>>] : m \in (lo - 9)..(hi - 9)}
        \cup {[type |-> "list", size |-> n, of |-> <<>>] :
                  n \in (lo \div 3)..(hi \div 3 + 1)}
        \cup {[type |-> "str", size |-> n, of |-> <<>>] : n \in lo..hi}

\* json.dumps(res): '{"r": "xx...x"}' is size + 9 characters, '[0, 0, ..., 0]'
\* is 3 * size characters and '[]' is 2
json_dumps(res) ==
    [type |-> "str",
     size |-> IF res.type = "dict" THEN res.size + 9
              ELSE IF res.size = 0 THEN 2 ELSE 3 * res.size,
     of |-> <<res>>]

\* sizes gzip.compress gives for n bytes of text: 20 bytes of header, trailer
\* and end of stream around a body from almost nothing to the text itself in
\* a stored block
GzipSizes(n) == {36, 20 + (n \div 2), n + 23}

\* gzip.compress(bytes(response_data, 'utf-8'), compresslevel=level), c bytes
gzip_compress(response_data, level, c) ==
    [type |-> "bytes", size |-> c,
     of |-> <<[type |-> "gzip", size |-> level, of |-> <<response_data>>]>>]

NoHeaders ==
    [ContentType |-> "", ContentEncoding |-> "", ContentLength |-> None,
     AccessControlAllowOrigin |-> "", AccessControlAllowHeaders |-> ""]

NoHttp ==
    [pc |-> "idle", res |-> [type |-> "str", size |-> 0, of |-> <<>>],
     accept |-> <<>>, failed |-> FALSE, headers |-> NoHeaders,
     payload |-> <<>>, body |-> <<>>]

\* a request reaches a route wrapped by the two decorators
HttpRequest(res, accept) ==
    /\ http.pc = "idle"
    /\ http' = [NoHttp EXCEPT !.pc = "handler", !.res = res, !.accept = accept]
    /\ UNCHANGED <<authVars, nodeVars, peer>>

\* lines 20 / 51: func(self, request, ...) gives a Deferred that fires with
\* the handler's result or fails with the handler's exception
Handler(ok) ==
    /\ http.pc = "handler"
    /\ http' = [http EXCEPT !.pc = "cors", !.failed = ~ok]
    /\ UNCHANGED <<authVars, nodeVars, peer>>

\* lines 53-58: _request is added with addCallback, so it runs only when the
\* Deferred has not failed
cors_header(h) ==
    IF h.failed THEN h
    ELSE [h EXCEPT !.headers.AccessControlAllowOrigin = "*",
                   !.headers.AccessControlAllowHeaders =
                      "Content-Type, Access-Control-Allow-Headers, Authorization, X-Requested-With"]

CorsHeader ==
    /\ http.pc = "cors"
    /\ http' = [cors_header(http) EXCEPT !.pc = "json"]
    /\ UNCHANGED <<authVars, nodeVars, peer>>

\* variant: a payload of exactly the threshold is compressed too
json_response_ge(h, c) ==
    LET response_data == IF h.res.type \in {"dict", "list"}
                         THEN json_dumps(h.res) ELSE h.res
        accepted_encodings == h.accept
        use_gzip == /\ response_data.size >= COMPRESS_THRESHOLD
                    /\ accepted_encodings # <<>>
                    /\ \E i \in 1..Len(accepted_encodings) :
                          Contains(GZIP, accepted_encodings[i])
        typed == [h EXCEPT !.headers.ContentType = "application/json",
                           !.payload = <<response_data>>]
    IN  IF h.failed THEN h
        ELSE IF use_gzip
        THEN [typed EXCEPT
                !.body = <<gzip_compress(response_data, COMPRESS_FASTEST, c)>>,
                !.headers.ContentEncoding = "gzip",
                !.headers.ContentLength = c]
        ELSE [typed EXCEPT !.body = <<response_data>>]

\* lines 22-38: _response_data, added with addCallback; c is the size of the
\* compressed data when the payload is compressed
json_response(h, c) ==
    LET response_data == IF h.res.type \in {"dict", "list"}
                         THEN json_dumps(h.res) ELSE h.res
        accepted_encodings == h.accept
        use_gzip == /\ response_data.size > COMPRESS_THRESHOLD
                    /\ accepted_encodings # <<>>
                    /\ \E i \in 1..Len(accepted_encodings) :
                          Contains(GZIP, accepted_encodings[i])
        typed == [h EXCEPT !.headers.ContentType = "application/json",
                           !.payload = <<response_data>>]
    IN  IF h.failed THEN h
        ELSE IF use_gzip
        THEN [typed EXCEPT
                !.body = <<gzip_compress(response_data, COMPRESS_FASTEST, c)>>,
                !.headers.ContentEncoding = "gzip",
                !.headers.ContentLength = c]
        ELSE [typed EXCEPT !.body = <<response_data>>]

JsonResponse ==
    /\ http.pc = "json"
    /\ \E c \in GzipSizes(IF http.res.type = "str" THEN http.res.size
                           ELSE json_dumps(http.res).size) :
          http' = [json_response(http, c) EXCEPT !.pc = "sent"]
    /\ UNCHANGED <<authVars, nodeVars, peer>>

(***************************************************************************)
(* The handshake message (neo/Network/Payloads/VersionPayload.py).  Bytes   *)
(* are 0..255 and a str is the sequence of its code points.  The binary     *)
(* writer and reader of neo.IO are taken from the wire format: fixed-width  *)
(* little-endian integers, a one-byte bool, and a string as a variable-     *)
(* length integer (1, 3, 5 or 9 bytes) followed by its UTF-8 bytes; a read  *)
(* past the end of the input raises Truncated.                              *)
(***************************************************************************)
RECURSIVE LittleEndian(_, _)
LittleEndian(v, n) ==
    IF n = 0 THEN <<>> ELSE <<v % 256>> \o LittleEndian(v \div 256, n - 1)

RECURSIVE FromLittleEndian(_)
FromLittleEndian(b) ==
    IF b = <<>> THEN 0 ELSE Head(b) + 256 * FromLittleEndian(Tail(b))

RECURSIVE Utf8Encode(_)
Utf8Encode(str) ==
    IF str = <<>> THEN <<>>
    ELSE LET c == Head(str)
         IN  (IF c < 128 THEN <<c>>
              ELSE <<192 + (c \div 64), 128 + (c % 64)>>) \o Utf8Encode(Tail(str))

\* bytes.decode('utf-8') for code points below 2048; val is the str
RECURSIVE Utf8Decode(_)
Utf8Decode(b) ==
    IF b = <<>> THEN [err |-> "ok", val |-> <<>>]
    ELSE LET c == Head(b)
         IN  IF c < 128
             THEN LET r == Utf8Decode(Tail(b))
                  IN  [r EXCEPT !.val = <<c>> \o @]
             ELSE IF c >= 194 /\ c < 224 /\ Len(b) >= 2 /\ b[2] >= 128 /\ b[2] < 192
             THEN LET r == Utf8Decode(SubSeq(b, 3, Len(b)))
                  IN  [r EXCEPT !.val = <<(c - 192) * 64 + (b[2] - 128)>> \o @]
             ELSE [err |-> "InvalidEncoding", val |-> <<>>]

WriteVarInt(n) ==
    IF n < 253 THEN <<n>>
    ELSE IF n <= 65535 THEN <<253>> \o LittleEndian(n, 2)
    ELSE <<254>> \o LittleEndian(n, 4)

\* writer.WriteUInt8 / WriteUInt64 / WriteUInt32 / WriteUInt16 / WriteVarString
\* / WriteBool
Write(type, v) ==
    CASE type = "UInt8" -> LittleEndian(v, 1)
      [] type = "UInt16" -> LittleEndian(v, 2)
      [] type = "UInt32" -> LittleEndian(v, 4)
      [] type = "UInt64" -> LittleEndian(v, 8)
      [] type = "Bool" -> <<IF v THEN 1 ELSE 0>>
      [] type = "VarString" ->
            LET b == Utf8Encode(v) IN WriteVarInt(Len(b)) \o b

Truncated == [err |-> "Truncated", val |-> <<>>, rest |-> <<>>]

\* the next n bytes of the input
ReadBytes(buf, n) ==
    IF Len(buf) < n THEN Truncated
    ELSE [err |-> "ok", val |-> SubSeq(buf, 1, n), rest |-> SubSeq(buf, n + 1, Len(buf))]

ReadUInt(buf, n) ==
    LET r == ReadBytes(buf, n)
    IN  IF r.err # "ok" THEN r
        ELSE [err |-> "ok", val |-> <<FromLittleEndian(r.val)>>, rest |-> r.rest]

ReadVarInt(buf) ==
    LET fb == ReadUInt(buf, 1)
    IN  IF fb.err # "ok" THEN fb
        ELSE CASE fb.val[1] = 253 -> ReadUInt(fb.rest, 2)
               [] fb.val[1] = 254 -> ReadUInt(fb.rest, 4)
               [] fb.val[1] = 255 -> ReadUInt(fb.rest, 8)
               [] OTHER -> fb

\* reader.ReadUInt8 / ReadUInt64 / ReadUInt32 / ReadUInt16 / ReadVarString /
\* ReadBool; val is the one-element sequence of the value read
Read(type, buf) ==
    CASE type = "UInt8" -> ReadUInt(buf, 1)
      [] type = "UInt16" -> ReadUInt(buf, 2)
      [] type = "UInt32" -> ReadUInt(buf, 4)
      [] type = "UInt64" -> ReadUInt(buf, 8)
      [] type = "Bool" ->
            LET r == ReadBytes(buf, 1)
            IN  IF r.err # "ok" THEN r
                ELSE [r EXCEPT !.val = <<r.val[1] # 0>>]
      [] type = "VarString" ->
            LET n == ReadVarInt(buf)
            IN  IF n.err # "ok" THEN n
                ELSE LET r == ReadBytes(n.rest, n.val[1])
                     IN  IF r.err # "ok" THEN r ELSE [r EXCEPT !.val = <<r.val>>]

\* the str None stands for in UserAgent
NoneStr == <<None>>

\* lines 15-22: the class attributes a new VersionPayload() starts from
Defaults ==
    [Version |-> None, Services |-> None, Timestamp |-> None, Port |-> None,
     Nonce |-> None, UserAgent |-> NoneStr, StartHeight |-> 1, Relay |-> FALSE]

\* lines 59-66, in order
SerializeSteps ==
    << [field |-> "Version", type |-> "UInt8"],
       [field |-> "Services", type |-> "UInt64"],
       [field |-> "Timestamp", type |-> "UInt32"],
       [field |-> "Port", type |-> "UInt16"],
       [field |-> "Nonce", type |-> "UInt32"],
       [field |-> "UserAgent", type |-> "VarString"],
       [field |-> "StartHeight", type |-> "UInt32"],
       [field |-> "Relay", type |-> "Bool"] >>

RECURSIVE SerializeBy(_, _)
SerializeBy(steps, self) ==
    IF steps = <<>> THEN <<>>
    ELSE Write(Head(steps).type, self[Head(steps).field])
            \o SerializeBy(Tail(steps), self)

\* Serialize(self, writer): the bytes written
Serialize(self) == SerializeBy(SerializeSteps, self)

\* lines 49-56, in order; UserAgent is decoded from UTF-8 (line 54)
DeserializeSteps ==
    << [field |-> "Version", type |-> "UInt8"],
       [field |-> "Services", type |-> "UInt64"],
       [field |-> "Timestamp", type |-> "UInt32"],
       [field |-> "Port", type |-> "UInt16"],
       [field |-> "Nonce", type |-> "UInt32"],
       [field |-> "UserAgent", type |-> "VarString"],
       [field |-> "StartHeight", type |-> "UInt32"],
       [field |-> "Relay", type |-> "Bool"] >>

\* each statement reads a value and assigns it to its attribute of self; an
\* exception of the reader (or of decode) ends the method there
RECURSIVE DeserializeBy(_, _, _)
DeserializeBy(steps, self, buf) ==
    IF steps = <<>> THEN [obj |-> self, err |-> "ok"]
    ELSE LET st == Head(steps)
             r == Read(st.type, buf)
         IN  IF r.err # "ok" THEN [obj |-> self, err |-> r.err]
             ELSE IF st.type = "VarString"
             THEN LET d == Utf8Decode(r.val[1])
                  IN  IF d.err # "ok" THEN [obj |-> self, err |-> d.err]
                      ELSE DeserializeBy(Tail(steps),
                                         [self EXCEPT ![st.field] = d.val], r.rest)
             ELSE DeserializeBy(Tail(steps),
                                [self EXCEPT ![st.field] = r.val[1]], r.rest)

\* variant: Timestamp and Nonce are read in each other's place
Deserialize_swapped(self, buf) ==
    DeserializeBy([DeserializeSteps EXCEPT ![3].field = "Nonce",
                                           ![5].field = "Timestamp"], self, buf)

\* Deserialize(self, reader): self afterwards and how the call ended
Deserialize(self, buf) == DeserializeBy(DeserializeSteps, self, buf)

\* the characters '/', 'N' and e-acute
AgentChars == {47, 78, 233}

\* Version, Services, Timestamp, Port, Nonce, StartHeight: small and large
\* values within each field's width
NumericFields ==
    { <<0, 1, 0, 10333, 1, 0>>,
      <<255, 2147483647, 1541203200, 65535, 16777216, 65536>>,
      <<0, 2147483647, 0, 65535, 1, 65536>>,
      <<255, 1, 1541203200, 10333, 16777216, 0>> }

ValidPeers ==
    { [Version |-> n[1], Services |-> n[2], Timestamp |-> n[3], Port |-> n[4],
       Nonce |-> n[5], UserAgent |-> ua, StartHeight |-> n[6], Relay |-> r] :
         n \in NumericFields,
         ua \in UNION {[1..k -> AgentChars] : k \in 0..MaxAgentLen},
         r \in BOOLEAN }

NoPeer ==
    [pc |-> "idle", x |-> Defaults, wire |-> <<>>, received |-> <<>>,
     y |-> Defaults, err |-> "-"]

\* a node describes itself
NewPeer(x) ==
    /\ peer.pc = "idle"
    /\ peer' = [NoPeer EXCEPT !.pc = "built", !.x = x]
    /\ UNCHANGED <<authVars, nodeVars, http>>

\* x.Serialize(writer)
Encode ==
    /\ peer.pc = "built"
    /\ peer' = [peer EXCEPT !.pc = "encoded", !.wire = Serialize(peer.x)]
    /\ UNCHANGED <<authVars, nodeVars, http>>

\* the first k bytes of the message reach the other node
Receive(k) ==
    /\ peer.pc = "encoded"
    /\ k \in 0..Len(peer.wire)
    /\ peer' = [peer EXCEPT !.pc = "received", !.received = SubSeq(peer.wire, 1, k)]
    /\ UNCHANGED <<authVars, nodeVars, http>>

\* VersionPayload().Deserialize(reader) on what was received
Decode ==
    /\ peer.pc = "received"
    /\ LET r == Deserialize(Defaults, peer.received)
       IN  peer' = [peer EXCEPT !.pc = "decoded", !.y = r.obj, !.err = r.err]
    /\ UNCHANGED <<authVars, nodeVars, http>>

(***************************************************************************)
(* The credential checker served by a running reactor, one request at a    *)
(* time.                                                                   *)
(***************************************************************************)
InitChecker ==
    /\ consecutive_errors_history = <<>>
    /\ slots = [s \in Slots |-> IdleSlot]
    /\ attempts = [u \in Users |-> 0]
    /\ evicted = {}
    /\ lastTouched = 0
    /\ nextFresh = username + 1
    /\ nfail = 0
    /\ lastReport = [n |-> [u \in Users |-> 0], evicted |-> {}]

InitAuth ==
    /\ InitChecker
    /\ main_pc = "run"
    /\ args = [wallet |-> TRUE, rpc |-> "extended", rest |-> FALSE]
    /\ loops = [l \in {"db", "wallet"} |->
                  [running |-> TRUE, calls |-> 1, failed |-> FALSE, after |-> 0]]
    /\ started = {"blockchain", "leader", "notif", "monitor", "rpc_auth"}
    /\ closed = <<>>
    /\ http = NoHttp
    /\ peer = NoPeer

NextAuth ==
    \/ ArriveAnonymous(1)
    \/ ArriveOther(1)
    \/ \E u \in {username, nextFresh}, p \in {GoodPw, BadPw} :
          ArriveBasic(1, u, p, MaxAttempts, MaxAttempts, username + MaxOthers)
    \/ LoginAnonymous(1)
    \/ LoginUnhandled(1)
    \/ LoginSucceed(1)
    \/ LoginFail(1)
    \/ UpdateErrors(1)
    \/ Backoff(1)

SpecAuth == InitAuth /\ [][NextAuth]_vars

(***************************************************************************)
(* The history under many usernames: failed logins only, one at a time.    *)
(***************************************************************************)
NextHistory ==
    \/ \E u \in {username, nextFresh} :
          ArriveBasic(1, u, BadPw, MaxAttempts, MaxRepeats, NumUsers)
    \/ LoginFail(1)
    \/ UpdateErrors(1)
    \/ Backoff(1)

SpecHistory == InitAuth /\ [][NextHistory]_vars

(***************************************************************************)
(* Several connections with failed logins pending at the same time: the    *)
(* first carries any username, the others the configured one, whose logins *)
(* come in bursts while the history is empty or full.                      *)
(***************************************************************************)
NextConc ==
    \/ \E s \in Slots, u \in {username, nextFresh} :
          /\ s # 1 => u = username
          /\ u = username => Len(consecutive_errors_history) \in {0, size_limit}
          /\ ArriveBasic(s, u, BadPw, MaxAttempts, MaxConcRepeats, NumUsers)
    \/ \E s \in Slots : LoginFail(s)
    \/ \E s \in Slots : UpdateErrors(s)
    \/ \E s \in Slots : Backoff(s)

SpecConc == InitAuth /\ [][NextConc]_vars

(***************************************************************************)
(* main() of api_server.py from line 234 on: start-up, reactor.run(), and   *)
(* the calls made after the reactor has stopped.  An exception raised by a *)
(* call of main() is caught nowhere: main() ends there ("crashed").        *)
(***************************************************************************)
\* the command lines main() accepts (lines 143-146: one port at least)
ArgSets ==
    {a \in [wallet : BOOLEAN, rpc : {"none", "plain", "extended"}, rest : BOOLEAN] :
        a.rpc # "none" \/ a.rest}

\* calls: executions so far; after: those made once another loop had failed
NoLoop == [running |-> FALSE, calls |-> 0, failed |-> FALSE, after |-> 0]

\* variant: an exception in one LoopingCall stops every LoopingCall
LoopFailed_all(ls, l) ==
    [k \in DOMAIN ls |-> [ls[k] EXCEPT !.running = FALSE, !.failed = (k = l) \/ @]]

\* the function of LoopingCall l raised: that loop stops and its deferred
\* errbacks into loopingCallErrorHandler, which logs
LoopFailed(ls, l) == [ls EXCEPT ![l].running = FALSE, ![l].failed = TRUE]

\* one call of the function of LoopingCall l, returning (ok) or raising
LoopCall(ls, l, ok) ==
    LET called == [ls EXCEPT ![l].calls = @ + 1,
                             ![l].after = IF \E k \in DOMAIN ls : k # l /\ ls[k].failed
                                          THEN @ + 1 ELSE @]
    IN  IF ok THEN [called EXCEPT ![l].running = TRUE] ELSE LoopFailed(called, l)

\* lines 235-236: LevelDBBlockchain(...), Blockchain.RegisterBlockchain
RegisterBlockchain ==
    /\ main_pc = "L235"
    /\ \E ok \in BOOLEAN :
          IF ok THEN /\ started' = started \cup {"blockchain"}
                     /\ main_pc' = "L238"
                ELSE /\ started' = started
                     /\ main_pc' = "crashed"
    /\ UNCHANGED <<authVars, ioVars, args, loops, closed>>

\* lines 238-240: dbloop.start(.1) calls PersistBlocks at once
StartDbLoop ==
    /\ main_pc = "L238"
    /\ \E ok \in BOOLEAN : loops' = LoopCall(loops, "db", ok)
    /\ main_pc' = "L243"
    /\ UNCHANGED <<authVars, ioVars, args, started, closed>>

\* lines 243-246: if wallet: walletdb_loop.start(1)
StartWalletLoop ==
    /\ main_pc = "L243"
    /\ IF args.wallet
       THEN \E ok \in BOOLEAN : loops' = LoopCall(loops, "wallet", ok)
       ELSE loops' = loops
    /\ main_pc' = "L250"
    /\ UNCHANGED <<authVars, ioVars, args, started, closed>>

\* line 250: NodeLeader.Instance().Start()
StartNodeLeader ==
    /\ main_pc = "L250"
    /\ \E ok \in BOOLEAN :
          IF ok THEN /\ started' = started \cup {"leader"}
                     /\ main_pc' = "L251"
                ELSE /\ started' = started
                     /\ main_pc' = "crashed"
    /\ UNCHANGED <<authVars, ioVars, args, loops, closed>>

\* line 251: NotificationDB.instance().start()
StartNotificationDB ==
    /\ main_pc = "L251"
    /\ \E ok \in BOOLEAN :
          IF ok THEN /\ started' = started \cup {"notif"}
                     /\ main_pc' = "L254"
                ELSE /\ started' = started
                     /\ main_pc' = "crashed"
    /\ UNCHANGED <<authVars, ioVars, args, loops, closed>>

\* variant: the monitor thread is started before the node leader, and the
\* node leader and the notification database are left out
StartMonitor_early ==
    /\ main_pc = "L250"
    /\ started' = started \cup {"monitor"}
    /\ main_pc' = "L258"
    /\ UNCHANGED <<authVars, ioVars, args, loops, closed>>

\* lines 254-256: the daemon thread running custom_background_code
StartMonitor ==
    /\ main_pc = "L254"
    /\ started' = started \cup {"monitor"}
    /\ main_pc' = "L258"
    /\ UNCHANGED <<authVars, ioVars, args, loops, closed>>

\* lines 258-273: the RPC site; credentialChecker is bound only when a wallet
\* was opened (line 214), and listen() reports a bind error on its deferred
ListenRpc ==
    /\ main_pc = "L258"
    /\ CASE args.rpc = "extended" /\ ~args.wallet ->
              /\ started' = started
              /\ main_pc' = "crashed"
         [] args.rpc = "extended" /\ args.wallet ->
              /\ \E bound \in BOOLEAN :
                    started' = IF bound THEN started \cup {"rpc_auth"} ELSE started
              /\ main_pc' = "L275"
         [] args.rpc = "plain" ->
              /\ \E bound \in BOOLEAN :
                    started' = IF bound THEN started \cup {"rpc"} ELSE started
              /\ main_pc' = "L275"
         [] OTHER ->
              /\ started' = started
              /\ main_pc' = "L275"
    /\ UNCHANGED <<authVars, ioVars, args, loops, closed>>

\* lines 275-279: the REST site
ListenRest ==
    /\ main_pc = "L275"
    /\ IF args.rest
       THEN \E bound \in BOOLEAN :
               started' = IF bound THEN started \cup {"rest"} ELSE started
       ELSE started' = started
    /\ main_pc' = "run"
    /\ UNCHANGED <<authVars, ioVars, args, loops, closed>>

\* variant: the LoopingCalls are driven by a timer of their own, which goes
\* on after reactor.run() has returned
Tick_timer(l, ok) ==
    /\ main_pc \in {"run", "L286", "L287", "L288", "L290"}
    /\ ReactorIdle
    /\ loops[l].running
    /\ loops[l].calls < MaxTicks
    /\ loops' = LoopCall(loops, l, ok)
    /\ UNCHANGED <<authVars, ioVars, main_pc, args, started, closed>>

\* a LoopingCall is due and the reactor thread is free to call it
Tick(l, ok) ==
    /\ main_pc = "run"
    /\ ReactorIdle
    /\ loops[l].running
    /\ loops[l].calls < MaxTicks
    /\ loops' = LoopCall(loops, l, ok)
    /\ UNCHANGED <<authVars, ioVars, main_pc, args, started, closed>>

DbTick == \E ok \in BOOLEAN : Tick("db", ok)

WalletTick == \E ok \in BOOLEAN : Tick("wallet", ok)

\* line 282: reactor.run() returns once the reactor is stopped (a signal)
ReactorStop ==
    /\ main_pc = "run"
    /\ ReactorIdle
    /\ main_pc' = "L286"
    /\ UNCHANGED <<authVars, ioVars, args, loops, started, closed>>

\* one of lines 286-288 / 290: the call returns or raises
ShutdownCall(at, what, next) ==
    /\ main_pc = at
    /\ \E ok \in BOOLEAN :
          IF ok THEN /\ closed' = Append(closed, what)
                     /\ main_pc' = next
                ELSE /\ closed' = closed
                     /\ main_pc' = "crashed"
    /\ UNCHANGED <<authVars, ioVars, args, loops, started>>

\* variant: the blockchain is disposed before the notification database is
\* closed
CloseNotificationDB_swapped ==
    \/ ShutdownCall("L286", "blockchain", "L286b")
    \/ ShutdownCall("L286b", "notif", "L288")

\* line 286: NotificationDB.close()
CloseNotificationDB == ShutdownCall("L286", "notif", "L287")

\* line 287: Blockchain.Default().Dispose()
DisposeBlockchain == ShutdownCall("L287", "blockchain", "L288")

\* line 288: NodeLeader.Instance().Shutdown()
ShutdownNodeLeader ==
    ShutdownCall("L288", "leader", IF args.wallet THEN "L290" ELSE "exit")

\* lines 289-290: if wallet: wallet.Close()
CloseWallet == ShutdownCall("L290", "wallet", "exit")

InitNode ==
    /\ InitChecker
    /\ main_pc = "L235"
    /\ args \in ArgSets
    /\ loops = [l \in {"db", "wallet"} |-> NoLoop]
    /\ started = {}
    /\ closed = <<>>
    /\ http = NoHttp
    /\ peer = NoPeer

NextNode ==
    \/ RegisterBlockchain
    \/ StartDbLoop
    \/ StartWalletLoop
    \/ StartNodeLeader
    \/ StartNotificationDB
    \/ StartMonitor
    \/ ListenRpc
    \/ ListenRest
    \/ DbTick
    \/ WalletTick
    \/ ReactorStop
    \/ CloseNotificationDB
    \/ DisposeBlockchain
    \/ ShutdownNodeLeader
    \/ CloseWallet
    \/ ArriveAnonymous(1)
    \/ \E p \in {GoodPw, BadPw} :
          ArriveBasic(1, username, p, MaxNodeAttempts, MaxNodeAttempts, username)
    \/ LoginAnonymous(1)
    \/ LoginSucceed(1)
    \/ LoginFail(1)
    \/ UpdateErrors(1)
    \/ Backoff(1)

SpecNode == InitNode /\ [][NextNode]_vars

(***************************************************************************)
(* The response pipeline and the handshake codec on their own.             *)
(***************************************************************************)
NextPipeline ==
    \/ \E res \in Results, accept \in AcceptHeaders : HttpRequest(res, accept)
    \/ \E ok \in BOOLEAN : Handler(ok)
    \/ CorsHeader
    \/ JsonResponse

SpecPipeline == InitAuth /\ [][NextPipeline]_vars

NextCodec ==
    \/ \E x \in ValidPeers : NewPeer(x)
    \/ Encode
    \/ \E k \in 0..Len(peer.wire) : Receive(k)
    \/ Decode

SpecCodec == InitAuth /\ [][NextCodec]_vars

(***************************************************************************)
(* Properties of the credential checker and of the failure history.        *)
(***************************************************************************)
Min(a, b) == IF a < b THEN a ELSE b

\* usernames for which a failure has been recorded
Seen == {u \in Users : attempts[u] > 0}

\* 2 seconds for the first failure and twice the previous delay for each next
\* one, taken thirteen doublings (a factor 8192) at a time
RECURSIVE ExpectedDelay(_)
ExpectedDelay(N) ==
    IF N <= 13 THEN <<2 * 2^(N - 1)>> ELSE BigMul(ExpectedDelay(N - 13), 8192)

\* C1: for a username never evicted, the N-th failed login (N = 1..100) records
\* count N and sleeps 2 * 2^(N-1) seconds (2, 4, 8, ... doubling each time);
\* nothing is reported while the sleep is pending and Unauthorized is reported
\* only with the whole delay slept.
C1_BackoffDoubles ==
    \A s \in Slots :
        LET r == slots[s]
        IN  (r.nth >= 1 /\ r.nth <= 100 /\ r.clean) =>
              /\ r.n = r.nth
              /\ r.pc = "backoff" =>
                    /\ r.result = "-"
                    /\ r.slept = BigZero
                    /\ get(consecutive_errors_history, r.user) = r.nth
              /\ r.pc = "done" =>
                    /\ r.result = "Unauthorized"
                    /\ r.slept = ExpectedDelay(r.nth)
                    /\ r.nth = 1 => r.slept = <<2>>
                    /\ r.nth = 2 => r.slept = <<4>>
                    /\ r.nth = 3 => r.slept = <<8>>

\* C2: the history never tracks more than 100 usernames, and once failures of
\* 101 distinct usernames have been recorded it tracks exactly 100.
C2_AtMost100Tracked ==
    /\ Len(consecutive_errors_history) <= 100
    /\ Cardinality(Keys(consecutive_errors_history)) = Len(consecutive_errors_history)
    /\ Cardinality(Seen) >= 101 => Len(consecutive_errors_history) = 100

\* failures of exactly 101 distinct usernames recorded
C2_Witness ==
    /\ Cardinality(Seen) = 101
    /\ Len(consecutive_errors_history) = 100

\* C3: a further failure of a tracked username moves it to the most recent
\* position of the history, so that the oldest position (the next one evicted)
\* holds the username least recently touched.
C3_TouchMovesToMostRecent ==
    (consecutive_errors_history # <<>> /\ lastTouched # 0) =>
        consecutive_errors_history[Len(consecutive_errors_history)].key = lastTouched

\* C4: every stored count is in 1..100, no count above 100 is returned, and a
\* failure after the 100th returns 100 and leaves 100 stored.
C4_CountCapped ==
    /\ \A i \in 1..Len(consecutive_errors_history) :
          consecutive_errors_history[i].value \in 1..100
    /\ \A s \in Slots :
          LET r == slots[s]
          IN  /\ r.n <= 100
              /\ (r.nth > 100 /\ r.clean) =>
                    /\ r.n = 100
                    /\ r.pc = "backoff" =>
                          get(consecutive_errors_history, r.user) = 100

\* the 101st failure in a row has returned 100
C4_Witness ==
    \E s \in Slots :
        /\ slots[s].nth = 101 /\ slots[s].n = 100 /\ slots[s].clean
        /\ get(consecutive_errors_history, slots[s].user) = 100

\* C5: a login with the configured username and the right password completes in
\* one step with the username as avatar, without sleeping, and leaves the
\* history as it was; the stored count of a username never evicted therefore
\* stays the number of its failures (capped), successes in between or not.
C5_SuccessKeepsHistory ==
    /\ [][\A s \in Slots :
            (/\ slots[s].pc = "pending" /\ slots[s].kind = "basic"
             /\ slots[s].user = username /\ slots[s].pw = GoodPw
             /\ slots'[s] # slots[s])
            => /\ slots'[s].pc = "done"
               /\ slots'[s].result = "avatar"
               /\ slots'[s].avatarId = username
               /\ slots'[s].slept = BigZero
               /\ consecutive_errors_history' = consecutive_errors_history
               /\ attempts' = attempts]_vars
    /\ [](\A i \in 1..Len(consecutive_errors_history) :
            LET e == consecutive_errors_history[i]
            IN  e.key \notin evicted => e.value = Min(attempts[e.key], 100))

\* a success of the configured username while its failure count is 2 or more
C5_Witness ==
    \E s \in Slots :
        /\ slots[s].result = "avatar" /\ slots[s].avatarId = username
        /\ get(consecutive_errors_history, username) >= 2

\* C6: credentials of an unsupported type end in UnhandledCredentials in one
\* step: no failure is recorded, nothing is slept, no avatar is built.
C6_UnhandledNoBackoff ==
    [][\A s \in Slots :
          (slots[s].pc = "pending" /\ slots[s].kind = "other" /\ slots'[s] # slots[s])
          => /\ slots'[s].pc = "done"
             /\ slots'[s].result = "UnhandledCredentials"
             /\ slots'[s].slept = BigZero
             /\ slots'[s].api = "-"
             /\ consecutive_errors_history' = consecutive_errors_history
             /\ attempts' = attempts]_vars

\* an unsupported credential rejected while failures are on record
C6_Witness ==
    \E s \in Slots :
        /\ slots[s].result = "UnhandledCredentials"
        /\ consecutive_errors_history # <<>>

\* C7: a request without credentials gets the ANONYMOUS avatar and the plain
\* ExtendedJsonRpcApi in one step, records no failure and sleeps nothing; the
\* ExtendedJsonRpcApiAuth resource is only ever built for the configured
\* username presented with the right password.
C7_AnonymousBypasses ==
    /\ [][\A s \in Slots :
            (slots[s].pc = "pending" /\ slots[s].kind = "none" /\ slots'[s] # slots[s])
            => /\ slots'[s].pc = "done"
               /\ slots'[s].result = "avatar"
               /\ slots'[s].avatarId = ANONYMOUS
               /\ slots'[s].api = "ExtendedJsonRpcApi"
               /\ slots'[s].slept = BigZero
               /\ consecutive_errors_history' = consecutive_errors_history
               /\ attempts' = attempts]_vars
    /\ [](\A s \in Slots :
            slots[s].api = "ExtendedJsonRpcApiAuth" =>
                /\ slots[s].kind = "basic"
                /\ slots[s].user = username /\ slots[s].pw = GoodPw
                /\ slots[s].avatarId # ANONYMOUS)

\* an anonymous request served while failures are on record
C7_Witness ==
    \E s \in Slots :
        /\ slots[s].kind = "none" /\ slots[s].api = "ExtendedJsonRpcApi"
        /\ consecutive_errors_history # <<>>

\* C8: with failed logins pending on several connections, in whatever order the
\* reactor takes them, the stored count of a username never evicted is the
\* number of its recorded failures (capped at 100), and the history holds
\* min(100, usernames seen) distinct entries: one entry leaves per entry
\* admitted to a full history.
C8_NoLostUpdate ==
    LET h == consecutive_errors_history
        tracked == Keys(h)
    IN  /\ \A i \in 1..Len(h) :
              h[i].key \notin evicted => h[i].value = Min(attempts[h[i].key], 100)
        /\ \A u \in Seen \ evicted : u \in tracked
        /\ Len(h) = Min(100, Cardinality(Seen))
        /\ Cardinality(tracked) = Len(h)

\* the configured username is admitted to a full history, which evicts, while
\* a second failed login of it is pending on another connection
C8_Witness ==
    \E s, o \in Slots :
        /\ s # o
        /\ slots[s].pc = "backoff" /\ slots[s].user = username /\ slots[s].nth = 1
        /\ slots[o].pc = "pending" /\ slots[o].user = username
        /\ Len(consecutive_errors_history) = 100
        /\ evicted # {}

\* C9: while a failed login is blocked in its backoff sleep, the ledger
\* persistence LoopingCall can still be called when it is due.
C9_PersistTicksDuringBackoff ==
    \A s \in Slots :
        (/\ slots[s].pc = "backoff"
         /\ main_pc = "run"
         /\ loops["db"].running
         /\ loops["db"].calls < MaxTicks)
        => ENABLED DbTick

\* C10: the step in which the wallet LoopingCall raises leaves the persistence
\* LoopingCall and the listeners as they were and does not end main() (a
\* running reactor keeps running); the persistence loop is only ever stopped
\* by a failure of its own.
C10_WalletFailureIsolated ==
    /\ [][(loops'["wallet"].failed /\ ~loops["wallet"].failed)
          => /\ loops'["db"] = loops["db"]
             /\ main_pc' # "crashed"
             /\ main_pc = "run" => main_pc' = "run"
             /\ started' = started]_vars
    /\ []((loops["wallet"].failed /\ loops["db"].calls > 0)
          => (loops["db"].running \/ loops["db"].failed))

\* the wallet loop raised in a tick of the running reactor and PersistBlocks
\* has been called again after that
C10_Witness ==
    /\ loops["wallet"].failed /\ loops["wallet"].calls >= 2
    /\ loops["db"].running /\ loops["db"].after >= 1
    /\ main_pc = "run"

(***************************************************************************)
(* Properties of start-up, of the periodic tasks and of shutdown.          *)
(***************************************************************************)
StartupPcs == {"L235", "L238", "L243", "L250", "L251", "L254", "L258", "L275"}

ShutdownPcs == {"L286", "L287", "L288", "L290"}

Listeners == {"rpc", "rpc_auth", "rest"}

\* C11: a periodic task (persistence or wallet) of which one execution has
\* raised is still scheduled while the node is running: it goes on with its
\* following ticks.
C11_TaskContinuesAfterError ==
    \A l \in {"db", "wallet"} :
        (main_pc = "run" /\ loops[l].failed) => loops[l].running

\* C12: start-up is fail-fast. The node is running only if every configured
\* start-up step succeeded (blockchain, node leader, notification database and
\* each configured HTTP listener bound), and where main() ended in the first
\* step no periodic task and no listener is left.
C12_StartupFailFast ==
    /\ main_pc = "run" =>
          /\ {"blockchain", "leader", "notif"} \subseteq started
          /\ args.rpc = "plain" => "rpc" \in started
          /\ args.rpc = "extended" => "rpc_auth" \in started
          /\ args.rest => "rest" \in started
    /\ (main_pc = "crashed" /\ "blockchain" \notin started) =>
          /\ \A l \in {"db", "wallet"} : loops[l] = NoLoop
          /\ started = {}

\* C13: a shutdown step that raises does not end the shutdown: from every
\* shutdown step main() goes on to the next shutdown step or to its end.
C13_ShutdownAlwaysCompletes ==
    [][(main_pc \in ShutdownPcs) => (main_pc' \in ShutdownPcs \cup {"exit"})]_vars

\* C14: shutdown goes in the order reactor stopped (no request is accepted any
\* more), notification database closed, blockchain disposed, node leader shut
\* down: what has been closed is always a prefix of that order, each step is
\* taken at its own line, and nothing is closed while the reactor runs.
C14_ShutdownOrder ==
    LET order == <<"notif", "blockchain", "leader", "wallet">>
    IN  /\ Len(closed) <= Len(order)
        /\ \A i \in 1..Len(closed) : closed[i] = order[i]
        /\ closed # <<>> => main_pc \in ShutdownPcs \cup {"exit", "crashed"}
        /\ main_pc = "L286" => closed = <<>>
        /\ main_pc = "L287" => closed = <<"notif">>
        /\ main_pc = "L288" => closed = <<"notif", "blockchain">>
        /\ main_pc \in ShutdownPcs =>
              /\ ~ENABLED ArriveAnonymous(1)
              /\ ~ENABLED ArriveBasic(1, username, BadPw, MaxNodeAttempts,
                                      MaxNodeAttempts, username)

\* the three steps were taken and main() is at its end or at wallet.Close()
C14_Witness ==
    /\ Len(closed) >= 3
    /\ closed[3] = "leader"
    /\ main_pc \in {"L290", "exit"}

\* C15: start-up goes in dependency order: blockchain registered, persistence
\* loop started, wallet loop started (exactly when a wallet is open), node
\* leader, notification database, monitor thread, HTTP listeners last; the
\* reactor runs only after all of them.
C15_StartupOrder ==
    LET dbStarted == loops["db"].calls > 0
        walletStarted == loops["wallet"].calls > 0
    IN  /\ dbStarted => "blockchain" \in started
        /\ walletStarted => (dbStarted /\ args.wallet)
        /\ "leader" \in started =>
              (dbStarted /\ (args.wallet <=> walletStarted))
        /\ "notif" \in started => "leader" \in started
        /\ "monitor" \in started => "notif" \in started
        /\ started \cap Listeners # {} => "monitor" \in started
        /\ "rest" \in started =>
              (args.rpc = "none" \/ main_pc \notin {"L235", "L238", "L243",
                                                    "L250", "L251", "L254", "L258"})
        /\ main_pc = "run" =>
              /\ {"blockchain", "leader", "notif", "monitor"} \subseteq started
              /\ dbStarted
              /\ args.wallet <=> walletStarted
        /\ main_pc \in StartupPcs =>
              /\ ~ENABLED DbTick
              /\ ~ENABLED WalletTick
              /\ ~ENABLED ArriveAnonymous(1)

\* the reactor runs with a wallet loop and both HTTP listeners bound
C15_Witness ==
    /\ main_pc = "run"
    /\ args.wallet /\ loops["wallet"].calls > 0
    /\ {"rpc_auth", "rest"} \subseteq started

\* C16: once reactor.run() has returned, neither LoopingCall is called again,
\* whatever shutdown step main() is at; in particular none is called once the
\* blockchain has been disposed.
C16_NoTickAfterShutdown ==
    /\ [][(main_pc \in ShutdownPcs \cup {"exit", "crashed"})
          => (\A l \in {"db", "wallet"} : loops'[l].calls = loops[l].calls)]_vars
    /\ [](main_pc \in ShutdownPcs => (~ENABLED DbTick /\ ~ENABLED WalletTick))

\* the blockchain has been disposed while both LoopingCalls were still
\* scheduled and had ticks left
C16_Witness ==
    /\ main_pc = "L288"
    /\ \A l \in {"db", "wallet"} : loops[l].running /\ loops[l].calls < MaxTicks

(***************************************************************************)
(* Properties of the response pipeline.                                    *)
(***************************************************************************)
\* the header line v names the content-coding c as one of its comma-separated
\* entries; an entry's parameters (a weight) are not interpreted
ListsCoding(v, c) ==
    \E a \in 1..Len(v) :
        LET b == a + Len(c) - 1
        IN  /\ b <= Len(v)
            /\ SubSeq(v, a, b) = c
            /\ a = 1 \/ v[a - 1] \in {",", " "}
            /\ b = Len(v) \/ v[b + 1] \in {",", " ", ";"}

\* the request declares gzip in one of its Accept-Encoding lines
DeclaresGzip(accept) == \E i \in 1..Len(accept) : ListsCoding(accept[i], GZIP)

C18_CorsOnEveryResponse ==
    http.pc = "sent" =>
        /\ http.headers.AccessControlAllowOrigin = "*"
        /\ http.headers.AccessControlAllowHeaders =
              "Content-Type, Access-Control-Allow-Headers, Authorization, X-Requested-With"

(***************************************************************************)
(* Properties of the handshake codec.                                      *)
(***************************************************************************)
\* C19: a valid message that is encoded and received whole decodes without
\* error to the value encoded, equal on all eight fields, and the bytes lie in
\* the order version, services, timestamp, port, nonce, user agent, start
\* height, relay.
C19_RoundTrip ==
    (peer.pc = "decoded" /\ peer.received = peer.wire) =>
        LET x == peer.x
            y == peer.y
            w == peer.wire
            ua == Len(w) - 24
        IN  /\ peer.err = "ok"
            /\ y.Version = x.Version /\ y.Services = x.Services
            /\ y.Timestamp = x.Timestamp /\ y.Port = x.Port
            /\ y.Nonce = x.Nonce /\ y.UserAgent = x.UserAgent
            /\ y.StartHeight = x.StartHeight /\ y.Relay = x.Relay
            /\ y = x
            /\ w[1] = x.Version
            /\ w[2] + 256 * w[3] + 65536 * w[4] = x.Services % 16777216
            /\ w[10] + 256 * w[11] + 65536 * w[12] = x.Timestamp % 16777216
            /\ w[14] + 256 * w[15] = x.Port
            /\ w[16] + 256 * w[17] + 65536 * w[18] = x.Nonce % 16777216
            /\ w[20] = ua - 1
            /\ ua >= 1 + Len(x.UserAgent)
            /\ w[20 + ua] + 256 * w[21 + ua] + 65536 * w[22 + ua] = x.StartHeight
            /\ w[Len(w)] = IF x.Relay THEN 1 ELSE 0

\* a message with a two-byte character in its user agent and differing
\* timestamp and nonce went round
C19_Witness ==
    /\ peer.pc = "decoded" /\ peer.received = peer.wire
    /\ peer.err = "ok"
    /\ peer.x.Timestamp # peer.x.Nonce
    /\ \E i \in 1..Len(peer.x.UserAgent) : peer.x.UserAgent[i] >= 128
    /\ peer.x.Relay

\* C20: decoding a strict prefix of an encoded message fails with Truncated
\* and leaves the target as it was constructed: no field has been assigned.
C20_TruncatedLeavesTargetUntouched ==
    (peer.pc = "decoded" /\ Len(peer.received) < Len(peer.wire)) =>
        /\ peer.err = "Truncated"
        /\ peer.y = Defaults

(***************************************************************************)
(* Frame and monotonicity of the failure history.                          *)
(***************************************************************************)
Entries(h) == {h[i] : i \in 1..Len(h)}

\* C21: the failed login of a username p changes p's entry only: every other
\* entry that stays keeps its count, no other username is added, and a
\* username is removed only when p was not tracked and the history held 100
\* usernames, exactly one being removed then.
C21_OnlyOwnEntryChanges ==
    [][\A s \in Slots :
          (slots[s].pc = "update" /\ slots'[s].pc = "backoff") =>
             LET p == slots[s].user
                 h == consecutive_errors_history
                 g == consecutive_errors_history'
                 removed == Keys(h) \ Keys(g)
             IN  /\ {e \in Entries(h) : e.key # p /\ e.key \in Keys(g)} \subseteq Entries(g)
                 /\ Keys(g) \ Keys(h) \subseteq {p}
                 /\ p \in Keys(g)
                 /\ removed # {} => (p \notin Keys(h) /\ Len(h) = 100)
                 /\ (p \notin Keys(h) /\ Len(h) = 100) => Cardinality(removed) = 1
                 /\ Cardinality(removed) <= 1]_vars

\* the failed login of an untracked username has just been recorded in a
\* history that held 100 usernames, and one username has been removed
C21_Witness ==
    /\ Len(consecutive_errors_history) = 100
    /\ Cardinality(evicted) = 1
    /\ slots[1].pc = "backoff"
    /\ slots[1].nth = 1 /\ slots[1].n = 1
    /\ slots[1].user \in Keys(consecutive_errors_history)
    /\ nfail = 101

\* C22: the count a username's failed login gets is not below the count its
\* previous failed login got unless the username was evicted in between;
\* after an eviction the count is 1, and a failed login with count 1 is
\* reported Unauthorized after a sleep of 2 seconds.
C22_CountMonotoneUnlessEvicted ==
    /\ [][\A s \in Slots :
             (slots[s].pc = "update" /\ slots'[s].pc = "backoff") =>
                LET p == slots[s].user
                    n == slots'[s].n
                IN  /\ p \notin lastReport.evicted => n >= lastReport.n[p]
                    /\ p \in lastReport.evicted => n = 1
                    /\ n >= 1]_vars
    /\ [](\A s \in Slots :
             (slots[s].pc = "done" /\ slots[s].n = 1) =>
                (slots[s].result = "Unauthorized" /\ slots[s].slept = <<2>>))

\* the configured username got count 2, was evicted, and its next failed
\* login has been reported with count 1
C22_Witness ==
    /\ slots[1].pc = "done" /\ slots[1].user = username
    /\ slots[1].n = 1 /\ slots[1].result = "Unauthorized"
    /\ attempts[username] = 3
    /\ username \in evicted

====
